---- MODULE Spec2Model ----
(***************************************************************************)
(* The request-extraction protocol of poem's `web` module:                 *)
(* FromRequest::from_request(parts, body) for the built-in extractors of   *)
(* src/web/mod.rs and for Form<T> of src/web/form.rs.  One request is      *)
(* RequestParts plus a body holder (Option<Body>); a handler's arguments   *)
(* are extracted one after another against the same pair.  The second     *)
(* half is the response protocol of src/web/mod.rs:                        *)
(* IntoResponse::into_response for the built-in responders and for the     *)
(* tuple, Result and Html combinators, run as the nest of calls it is.     *)
(***************************************************************************)
EXTENDS Integers, Sequences, FiniteSets, TLC

VARIABLES parts, body, steps, last, takes, taker,
          responder, cur, stack, resp

vars == <<parts, body, steps, last, takes, taker, responder, cur, stack, resp>>

(* Bounds of the model. *)
MaxSteps == 2
MaxOptionDepth == 1
MaxNesting == 2

(***************************************************************************)
(* Values.  Option<X> is Some(x) or NoneV; Result<X> is Ok(x) or Err(e).   *)
(* Every record of the module is written with its fields in the order TLC  *)
(* normalises them to, so that a value shared by two workers is never      *)
(* reordered while it is read.                                             *)
(***************************************************************************)
NoneV == [some |-> FALSE]
Some(x) == [some |-> TRUE, v |-> x]
Ok(x) == [ok |-> TRUE, val |-> x]
Err(e) == [ok |-> FALSE, err |-> e]

(***************************************************************************)
(* crate::error.  The kinds are the ones the extractors name.  A decode    *)
(* failure and a content-type failure carry the client-error status 400    *)
(* ("a Bad Request response will be returned"); bad_request keeps the      *)
(* cause it wraps.                                                         *)
(***************************************************************************)
BAD_REQUEST == 400
ErrorBodyHasBeenTaken == [kind |-> "BodyAlreadyTaken"]
ErrorInvalidFormContentType == [kind |-> "InvalidContentType", status |-> BAD_REQUEST]
bad_request(cause) == [kind |-> "BadRequest", status |-> BAD_REQUEST, cause |-> cause]
IoFailure == [kind |-> "IoFailure"]

(***************************************************************************)
(* Byte strings are sequences of one-character strings.  "xFF" stands for  *)
(* a byte that is not valid UTF-8; "uFFFD" for the replacement character.  *)
(***************************************************************************)
InvalidByte == "xFF"
Replacement == "uFFFD"

Payloads ==
  { <<>>,
    <<"n", "=", "B", "&", "a", "=", "5">>,
    <<"n", "=", "A", "&", "a", "=", "x">>,
    <<"n", "=", InvalidByte, "&", "a", "=", "5">> }

(* A query is a str: it holds no invalid byte. *)
Queries ==
  { <<"a", "=", "3", "0", "&", "n", "=", "A", "+", "B">>,
    <<"n", "=", "A", "&", "n", "=", "B">> }

(***************************************************************************)
(* crate::body::Body: a single-use payload.  Reading it to completion      *)
(* (into_bytes) gives its bytes or fails with an I/O error.                *)
(***************************************************************************)
Bodies == {[readable |-> TRUE, bytes |-> p] : p \in Payloads}
            \cup {[readable |-> FALSE, bytes |-> <<>>]}

into_bytes(b) == IF b.readable THEN Ok(b.bytes) ELSE Err(IoFailure)

(* Option::take on the holder: the content, and the holder left empty.    *)
(* take_peek is the slip of reading the holder without emptying it.        *)
take_peek(holder) == [holder |-> holder, got |-> holder]
take(holder) == [holder |-> NoneV, got |-> holder]

(***************************************************************************)
(* RequestParts.  Headers are a multimap kept as a sequence of             *)
(* <<name, value>> entries (names lower-cased); HeaderMap::get gives the   *)
(* first value of a name.                                                  *)
(***************************************************************************)
GET == "GET"
Methods == {GET, "POST", "HEAD", "DELETE", "OPTIONS"}
Versions == {"HTTP/1.1", "HTTP/2.0"}
CONTENT_TYPE == "content-type"
FormContentType == "application/x-www-form-urlencoded"

HeaderMaps ==
  { <<>>,
    << <<CONTENT_TYPE, FormContentType>> >>,
    << <<CONTENT_TYPE, "application/x-www-form-urlencoded; charset=utf-8">> >>,
    << <<CONTENT_TYPE, "application/json">> >>,
    << <<"x-trace", "abc">>, <<CONTENT_TYPE, FormContentType>> >>,
    << <<CONTENT_TYPE, FormContentType>>, <<CONTENT_TYPE, "application/json">> >> }

RECURSIVE HeaderGet(_, _)
HeaderGet(headers, name) ==
  IF headers = <<>> THEN NoneV
  ELSE IF Head(headers)[1] = name THEN Some(Head(headers)[2])
  ELSE HeaderGet(Tail(headers), name)

Uris == {[path |-> "/x", query |-> q] : q \in {NoneV} \cup {Some(p) : p \in Queries}}

RequestParts ==
  [headers : HeaderMaps, method : Methods, uri : Uris, version : Versions,
   extensions : {{}}]

unwrap_or_default(o) == IF o.some THEN o.v ELSE <<>>

(***************************************************************************)
(* serde_urlencoded::from_bytes / from_str, as the extractor uses it.      *)
(* form_urlencoded::parse splits the input on '&', skips empty segments,   *)
(* splits each segment on its first '=', and decodes name and value ('+'   *)
(* is a space, bytes that are not UTF-8 become the replacement character). *)
(***************************************************************************)
RECURSIVE IndexOf(_, _, _)
IndexOf(s, c, i) ==
  IF i > Len(s) THEN 0 ELSE IF s[i] = c THEN i ELSE IndexOf(s, c, i + 1)

decode(s) ==
  [i \in 1..Len(s) |->
     IF s[i] = "+" THEN " " ELSE IF s[i] = InvalidByte THEN Replacement ELSE s[i]]

ParsePair(segment) ==
  LET e == IndexOf(segment, "=", 1) IN
  IF e = 0 THEN <<decode(segment), <<>>>>
  ELSE <<decode(SubSeq(segment, 1, e - 1)), decode(SubSeq(segment, e + 1, Len(segment)))>>

RECURSIVE parse(_)
parse(input) ==
  IF input = <<>> THEN <<>>
  ELSE LET amp == IndexOf(input, "&", 1)
           segment == IF amp = 0 THEN input ELSE SubSeq(input, 1, amp - 1)
           rest == IF amp = 0 THEN <<>> ELSE SubSeq(input, amp + 1, Len(input))
       IN IF segment = <<>> THEN parse(rest)
          ELSE <<ParsePair(segment)>> \o parse(rest)

(* str::parse::<u8>: a non-empty run of decimal digits whose value fits. *)
Digits == {"0", "3", "5"}
DigitVal(c) == CASE c = "0" -> 0 [] c = "3" -> 3 [] c = "5" -> 5

RECURSIVE DecimalValue(_)
DecimalValue(s) ==
  IF s = <<>> THEN 0
  ELSE 10 * DecimalValue(SubSeq(s, 1, Len(s) - 1)) + DigitVal(s[Len(s)])

ParseU8(s) ==
  IF s # <<>> /\ (\A i \in 1..Len(s) : s[i] \in Digits) /\ DecimalValue(s) < 256
  THEN Ok(DecimalValue(s))
  ELSE Err("invalid digit found in string")

(***************************************************************************)
(* The target types T of Form<T>: "Pairs" is Vec<(String, String)>, and    *)
(* "Person" is a struct { n: String, a: u8 } with serde's derived          *)
(* Deserialize (unknown keys ignored, a repeated or missing field is an    *)
(* error).                                                                 *)
(***************************************************************************)
Targets == <<"Pairs", "Person">>

RECURSIVE VisitMap(_, _)
VisitMap(pairs, acc) ==
  IF ~acc.ok THEN acc
  ELSE IF pairs = <<>> THEN
    IF ~acc.val.n.some THEN Err("missing field n")
    ELSE IF ~acc.val.a.some THEN Err("missing field a")
    ELSE Ok([n |-> acc.val.n.v, a |-> acc.val.a.v])
  ELSE LET k == Head(pairs)[1]
           v == Head(pairs)[2]
       IN IF k = <<"n">> THEN
            IF acc.val.n.some THEN Err("duplicate field n")
            ELSE VisitMap(Tail(pairs), Ok([acc.val EXCEPT !.n = Some(v)]))
          ELSE IF k = <<"a">> THEN
            IF acc.val.a.some THEN Err("duplicate field a")
            ELSE IF ParseU8(v).ok
                 THEN VisitMap(Tail(pairs), Ok([acc.val EXCEPT !.a = Some(ParseU8(v).val)]))
                 ELSE Err(ParseU8(v).err)
          ELSE VisitMap(Tail(pairs), acc)

from_bytes(T, input) ==
  IF T = "Pairs" THEN Ok(parse(input))
  ELSE VisitMap(parse(input), Ok([n |-> NoneV, a |-> NoneV]))

from_str(T, input) == from_bytes(T, input)

(* Result::map_err(Error::bad_request) *)
map_err_bad_request(r) == IF r.ok THEN r ELSE Err(bad_request(r.err))

(* The tuple struct Form<T>(pub T). *)
Form(v) == [Form |-> v]
(***************************************************************************)
(* FromRequest::from_request(parts, body).  Each implementation gives the  *)
(* Result it returns, the holder as it leaves it, and whether its take()   *)
(* obtained the body.                                                      *)
(***************************************************************************)
Outcome(result, holder, took) == [body |-> holder, result |-> result, took |-> took]

RequestParts_from_request(p, b) == Outcome(Ok(p), b, FALSE)

(* Uri_from_request_Taking: a metadata extractor that empties the holder. *)
Uri_from_request_Taking(p, b) == Outcome(Ok(p.uri), take(b).holder, take(b).got.some)

Uri_from_request(p, b) == Outcome(Ok(p.uri), b, FALSE)

Method_from_request(p, b) == Outcome(Ok(p.method), b, FALSE)

Version_from_request(p, b) == Outcome(Ok(p.version), b, FALSE)

HeaderMap_from_request(p, b) == Outcome(Ok(p.headers), b, FALSE)

(* Body_from_request_EmptyOnTaken: an empty holder answered with an empty *)
(* body instead of the error.                                             *)
Body_from_request_EmptyOnTaken(p, b) ==
  LET t == take(b) IN
  IF ~t.got.some THEN Outcome(Ok([readable |-> TRUE, bytes |-> <<>>]), t.holder, FALSE)
  ELSE Outcome(Ok(t.got.v), t.holder, TRUE)

Body_from_request(p, b) ==
  LET t == take(b) IN
  IF ~t.got.some THEN Outcome(Err(ErrorBodyHasBeenTaken), t.holder, FALSE)
  ELSE Outcome(Ok(t.got.v), t.holder, TRUE)

(* String::from_utf8(..).map_err(Error::bad_request) *)
from_utf8(bytes) ==
  IF \E i \in 1..Len(bytes) : bytes[i] = InvalidByte
  THEN Err("invalid utf-8 sequence")
  ELSE Ok(bytes)

(* String_from_request_Lossy: invalid UTF-8 replaced instead of rejected. *)
String_from_request_Lossy(p, b) ==
  LET t == take(b) IN
  IF ~t.got.some THEN Outcome(Err(ErrorBodyHasBeenTaken), t.holder, FALSE)
  ELSE LET read == into_bytes(t.got.v) IN
       IF ~read.ok THEN Outcome(read, t.holder, TRUE)
       ELSE Outcome(Ok(decode(read.val)), t.holder, TRUE)

String_from_request(p, b) ==
  LET t == take(b) IN
  IF ~t.got.some THEN Outcome(Err(ErrorBodyHasBeenTaken), t.holder, FALSE)
  ELSE LET read == into_bytes(t.got.v) IN
       IF ~read.ok THEN Outcome(read, t.holder, TRUE)
       ELSE Outcome(map_err_bad_request(from_utf8(read.val)), t.holder, TRUE)

Bytes_from_request(p, b) ==
  LET t == take(b) IN
  IF ~t.got.some THEN Outcome(Err(ErrorBodyHasBeenTaken), t.holder, FALSE)
  ELSE Outcome(into_bytes(t.got.v), t.holder, TRUE)

(* Vec_from_request_EmptyOnTaken: an empty holder answered with no bytes. *)
Vec_from_request_EmptyOnTaken(p, b) ==
  LET t == take(b) IN
  IF ~t.got.some THEN Outcome(Ok(<<>>), t.holder, FALSE)
  ELSE Outcome(into_bytes(t.got.v), t.holder, TRUE)

Vec_from_request(p, b) ==
  LET t == take(b) IN
  IF ~t.got.some THEN Outcome(Err(ErrorBodyHasBeenTaken), t.holder, FALSE)
  ELSE Outcome(into_bytes(t.got.v), t.holder, TRUE)

(* Result::map(Self) *)
map_Form(r) == IF r.ok THEN Ok(Form(r.val)) ELSE r

(* The GET branch: the query component, absent read as the empty string. *)
FormFromQuery(T, p, b) ==
  Outcome(map_Form(map_err_bad_request(from_str(T, unwrap_or_default(p.uri.query)))),
          b, FALSE)

(* The body branch, once the content type has been accepted.              *)
(* FormFromBody_RestoreOnError puts the body back when it fails.           *)
FormFromBody_RestoreOnError(T, p, b) ==
  LET t == take(b) IN
  IF ~t.got.some THEN Outcome(Err(ErrorBodyHasBeenTaken), t.holder, FALSE)
  ELSE LET read == into_bytes(t.got.v) IN
       IF ~read.ok THEN Outcome(read, b, FALSE)
       ELSE LET d == map_Form(map_err_bad_request(from_bytes(T, read.val))) IN
            IF d.ok THEN Outcome(d, t.holder, TRUE) ELSE Outcome(d, b, FALSE)

FormFromBody(T, p, b) ==
  LET t == take(b) IN
  IF ~t.got.some THEN Outcome(Err(ErrorBodyHasBeenTaken), t.holder, FALSE)
  ELSE LET read == into_bytes(t.got.v) IN
       IF ~read.ok THEN Outcome(read, t.holder, TRUE)
       ELSE Outcome(map_Form(map_err_bad_request(from_bytes(T, read.val))),
                    t.holder, TRUE)

(* Variants of Form::from_request with one slip each: the body taken      *)
(* before the content-type check; no GET branch; the query decoded on      *)
(* every method; an absent query rejected; the holder looked at before the *)
(* content type; HEAD read like GET; a decode error on GET passed on as a   *)
(* server error.                                                           *)
Form_from_request_TakeFirst(T, p, b) ==
  IF p.method = GET THEN FormFromQuery(T, p, b)
  ELSE LET t == take(b) IN
       IF HeaderGet(p.headers, CONTENT_TYPE) # Some(FormContentType)
       THEN Outcome(Err(ErrorInvalidFormContentType), t.holder, t.got.some)
       ELSE FormFromBody(T, p, b)

Form_from_request_NoMethodBranch(T, p, b) ==
  IF HeaderGet(p.headers, CONTENT_TYPE) # Some(FormContentType)
  THEN Outcome(Err(ErrorInvalidFormContentType), b, FALSE)
  ELSE FormFromBody(T, p, b)

Form_from_request_QueryAlways(T, p, b) ==
  IF p.method = GET THEN FormFromQuery(T, p, b)
  ELSE IF HeaderGet(p.headers, CONTENT_TYPE) # Some(FormContentType)
  THEN Outcome(Err(ErrorInvalidFormContentType), b, FALSE)
  ELSE Outcome(FormFromQuery(T, p, b).result, take(b).holder, take(b).got.some)

Form_from_request_QueryRequired(T, p, b) ==
  IF p.method = GET /\ ~p.uri.query.some
  THEN Outcome(Err(bad_request("missing query")), b, FALSE)
  ELSE IF p.method = GET THEN FormFromQuery(T, p, b)
  ELSE IF HeaderGet(p.headers, CONTENT_TYPE) # Some(FormContentType)
  THEN Outcome(Err(ErrorInvalidFormContentType), b, FALSE)
  ELSE FormFromBody(T, p, b)

Form_from_request_HolderFirst(T, p, b) ==
  IF p.method = GET THEN FormFromQuery(T, p, b)
  ELSE IF ~b.some THEN Outcome(Err(ErrorBodyHasBeenTaken), b, FALSE)
  ELSE IF HeaderGet(p.headers, CONTENT_TYPE) # Some(FormContentType)
  THEN Outcome(Err(ErrorInvalidFormContentType), b, FALSE)
  ELSE FormFromBody(T, p, b)

Form_from_request_HeadLikeGet(T, p, b) ==
  IF p.method = GET \/ p.method = "HEAD" THEN FormFromQuery(T, p, b)
  ELSE IF HeaderGet(p.headers, CONTENT_TYPE) # Some(FormContentType)
  THEN Outcome(Err(ErrorInvalidFormContentType), b, FALSE)
  ELSE FormFromBody(T, p, b)

Form_from_request_InternalError(T, p, b) ==
  IF p.method = GET
  THEN LET d == from_str(T, unwrap_or_default(p.uri.query)) IN
       Outcome(IF d.ok THEN Ok(Form(d.val))
               ELSE Err([kind |-> "InternalServerError", status |-> 500, cause |-> d.err]),
               b, FALSE)
  ELSE IF HeaderGet(p.headers, CONTENT_TYPE) # Some(FormContentType)
  THEN Outcome(Err(ErrorInvalidFormContentType), b, FALSE)
  ELSE FormFromBody(T, p, b)

Form_from_request(T, p, b) ==
  IF p.method = GET THEN FormFromQuery(T, p, b)
  ELSE IF HeaderGet(p.headers, CONTENT_TYPE) # Some(FormContentType)
  THEN Outcome(Err(ErrorInvalidFormContentType), b, FALSE)
  ELSE FormFromBody(T, p, b)

(* Ok(T::from_request(parts, body).await.ok()) on the inner outcome.       *)
(* Option_from_request_Propagate is the slip of letting the error through. *)
Option_from_request_Propagate(inner) ==
  Outcome(IF inner.result.ok THEN Ok(Some(inner.result.val)) ELSE inner.result,
          inner.body, inner.took)

(* Option_from_request_DropsBody empties the holder when T failed.         *)
Option_from_request_DropsBody(inner) ==
  Outcome(Ok(IF inner.result.ok THEN Some(inner.result.val) ELSE NoneV),
          IF inner.result.ok THEN inner.body ELSE NoneV, inner.took)

Option_from_request(inner) ==
  Outcome(Ok(IF inner.result.ok THEN Some(inner.result.val) ELSE NoneV),
          inner.body, inner.took)

(***************************************************************************)
(* The extractor types: a base type, the T of Form<T>, and the number of   *)
(* Option<..> layers around it.                                            *)
(***************************************************************************)
MetadataTypes == {"RequestParts", "Uri", "Method", "Version", "HeaderMap"}
BodyTypes == {"Body", "String", "Bytes", "Vec"}

(* The implementations of FromRequest apart from Option<T>: <<type, T>>. *)
Extractors ==
  << <<"RequestParts", "-">>, <<"Uri", "-">>, <<"Method", "-">>, <<"Version", "-">>,
     <<"HeaderMap", "-">>, <<"Body", "-">>, <<"String", "-">>, <<"Bytes", "-">>,
     <<"Vec", "-">>, <<"Form", "Pairs">>, <<"Form", "Person">> >>

Kind(ty, T, opt) == [T |-> T, ty |-> ty, opt |-> opt]

NoKind == Kind("none", "-", 0)

Unwrapped(kind) == [kind EXCEPT !.opt = @ - 1]

RECURSIVE from_request(_, _, _)
from_request(kind, p, b) ==
  IF kind.opt > 0 THEN Option_from_request(from_request(Unwrapped(kind), p, b))
  ELSE CASE kind.ty = "RequestParts" -> RequestParts_from_request(p, b)
         [] kind.ty = "Uri" -> Uri_from_request(p, b)
         [] kind.ty = "Method" -> Method_from_request(p, b)
         [] kind.ty = "Version" -> Version_from_request(p, b)
         [] kind.ty = "HeaderMap" -> HeaderMap_from_request(p, b)
         [] kind.ty = "Body" -> Body_from_request(p, b)
         [] kind.ty = "String" -> String_from_request(p, b)
         [] kind.ty = "Bytes" -> Bytes_from_request(p, b)
         [] kind.ty = "Vec" -> Vec_from_request(p, b)
         [] kind.ty = "Form" -> Form_from_request(kind.T, p, b)

(***************************************************************************)
(* The state machine: one request, and the extraction steps run on it.     *)
(* `last` records the latest step (its extractor, the holder it found and  *)
(* the Result it returned); `takes` counts the steps that obtained the     *)
(* body and `taker` is the extractor type of the latest of them.           *)
(***************************************************************************)
Init ==
  /\ parts \in RequestParts
  /\ body \in {Some(b) : b \in Bodies}
  /\ steps = 0
  /\ last = [kind |-> NoKind, result |-> Ok("none"), took |-> FALSE, before |-> body]
  /\ takes = 0
  /\ taker = "none"
  /\ responder = NoneV
  /\ cur = NoneV
  /\ stack = <<>>
  /\ resp = NoneV

Step(kind) ==
  /\ steps < MaxSteps
  /\ LET r == from_request(kind, parts, body) IN
       /\ body' = r.body
       /\ last' = [kind |-> kind, result |-> r.result, took |-> r.took, before |-> body]
       /\ takes' = takes + (IF r.took THEN 1 ELSE 0)
       /\ taker' = IF r.took THEN kind.ty ELSE taker
  /\ steps' = steps + 1
  /\ UNCHANGED <<parts, responder, cur, stack, resp>>

Plain(t, T) == Kind(t, T, 0)

ExtractRequestParts == Step(Plain("RequestParts", "-"))
ExtractUri == Step(Plain("Uri", "-"))
ExtractMethod == Step(Plain("Method", "-"))
ExtractVersion == Step(Plain("Version", "-"))
ExtractHeaderMap == Step(Plain("HeaderMap", "-"))
ExtractBody == Step(Plain("Body", "-"))
ExtractString == Step(Plain("String", "-"))
ExtractBytes == Step(Plain("Bytes", "-"))
ExtractVec == Step(Plain("Vec", "-"))
ExtractForm == \E i \in 1..Len(Targets) : Step(Plain("Form", Targets[i]))
ExtractOption ==
  \E i \in 1..Len(Extractors), d \in 1..MaxOptionDepth :
    Step(Kind(Extractors[i][1], Extractors[i][2], d))

Next ==
  \/ ExtractRequestParts
  \/ ExtractUri
  \/ ExtractMethod
  \/ ExtractVersion
  \/ ExtractHeaderMap
  \/ ExtractBody
  \/ ExtractString
  \/ ExtractBytes
  \/ ExtractVec
  \/ ExtractForm
  \/ ExtractOption

Spec == Init /\ [][Next]_vars

TypeOK ==
  /\ parts.method \in Methods
  /\ parts.version \in Versions
  /\ body = NoneV \/ (body.some /\ body.v.readable \in BOOLEAN)
  /\ steps \in 0..MaxSteps
  /\ takes \in 0..MaxSteps
  /\ last.kind.opt \in 0..MaxOptionDepth
(***************************************************************************)
(* Response protocol.  A Response is a status, a header collection and a   *)
(* body; the builder starts from status 200, no headers and an empty body. *)
(***************************************************************************)
DefaultStatus == 200
StatusCodes == {201, 404}

Body_from(bytes) == [readable |-> TRUE, bytes |-> bytes]
Body_empty == Body_from(<<>>)

(* HeaderMap of the http crate, kept as a sequence of <<name, value>>.     *)
(* insert replaces every value of the name, append adds one more value.    *)
HeaderRemove(headers, name) == SelectSeq(headers, LAMBDA e : e[1] # name)

HeaderAppend(headers, name, value) == Append(headers, <<name, value>>)

RECURSIVE HeaderInsert(_, _, _)
HeaderInsert(headers, name, value) ==
  IF headers = <<>> THEN << <<name, value>> >>
  ELSE IF Head(headers)[1] = name
       THEN << <<name, value>> >> \o HeaderRemove(Tail(headers), name)
       ELSE << Head(headers) >> \o HeaderInsert(Tail(headers), name, value)

(* HeaderMap::into_iter: for every name, (Some(name), first value) and     *)
(* then (None, value) for each further value of that name.                 *)
RECURSIVE into_iter(_)
into_iter(headers) ==
  IF headers = <<>> THEN <<>>
  ELSE LET name == Head(headers)[1]
           more == SelectSeq(Tail(headers), LAMBDA e : e[1] = name)
           rest == SelectSeq(Tail(headers), LAMBDA e : e[1] # name)
       IN << <<Some(name), Head(headers)[2]>> >>
            \o [i \in 1..Len(more) |-> <<NoneV, more[i][2]>>]
            \o into_iter(rest)

(* HeaderMap::extend over such items: an item with a name inserts into     *)
(* that name's entry (an occupied entry has its previous values replaced), *)
(* an item without a name appends to the entry of the last name seen.      *)
RECURSIVE extend_from(_, _, _)
extend_from(headers, key, items) ==
  IF items = <<>> THEN headers
  ELSE IF Head(items)[1].some
       THEN extend_from(HeaderInsert(headers, Head(items)[1].v, Head(items)[2]),
                        Head(items)[1].v, Tail(items))
       ELSE extend_from(HeaderAppend(headers, key, Head(items)[2]), key, Tail(items))

extend(headers, items) == extend_from(headers, "", items)

(* crate::response: the builder and the setter the combinators use.        *)
Response_builder == [body |-> Body_empty, status |-> DefaultStatus, headers |-> <<>>]
builder_status(builder, status) == [builder EXCEPT !.status = status]
builder_content_type(builder, value) ==
  [builder EXCEPT !.headers = HeaderAppend(@, CONTENT_TYPE, value)]
builder_body(builder, payload) == Ok([builder EXCEPT !.body = payload])
set_status(response, status) == [response EXCEPT !.status = status]

(* Into<Error> for the failure type of a Result: an Error stays itself,    *)
(* any other failure becomes the generic kind that carries it.             *)
into_Error(e) == IF e[1] = "Error" THEN e[2] ELSE [kind |-> "Generic", cause |-> e[2]]

(***************************************************************************)
(* IntoResponse::into_response, one operator per implementation.  A        *)
(* combinator's operator takes the outcome of the inner conversion it      *)
(* calls first.  Infallible has no value, so it has no conversion to run.  *)
(***************************************************************************)
Response_into_response(self) == Ok(self)
String_into_response(self) == builder_body(Response_builder, Body_from(self))
Str_into_response(self) == builder_body(Response_builder, Body_from(self))
Slice_into_response(self) == builder_body(Response_builder, Body_from(self))
Bytes_into_response(self) == builder_body(Response_builder, Body_from(self))
Vec_into_response(self) == builder_body(Response_builder, Body_from(self))
Unit_into_response == builder_body(Response_builder, Body_empty)
StatusCode_into_response(self) ==
  builder_body(builder_status(Response_builder, self), Body_empty)

(* Tuple2_into_response_Rebuild: a fresh response around the inner body.   *)
Tuple2_into_response_Rebuild(status, inner) ==
  IF ~inner.ok THEN inner
  ELSE builder_body(builder_status(Response_builder, status), inner.val.body)

Tuple2_into_response(status, inner) ==
  IF ~inner.ok THEN inner
  ELSE Ok(set_status(inner.val, status))

(* Tuple3_into_response_KeepInnerStatus: the status is set only on a       *)
(* response that still has the default one.                                *)
Tuple3_into_response_KeepInnerStatus(status, headers, inner) ==
  IF ~inner.ok THEN inner
  ELSE LET r == IF inner.val.status = DefaultStatus
                THEN set_status(inner.val, status) ELSE inner.val IN
       Ok([r EXCEPT !.headers = extend(@, into_iter(headers))])

Tuple3_into_response(status, headers, inner) ==
  IF ~inner.ok THEN inner
  ELSE LET r == set_status(inner.val, status) IN
       Ok([r EXCEPT !.headers = extend(@, into_iter(headers))])

(* Result<T, E>: map_err(Into::into), then and_then(into_response).        *)
(* Result_Err_into_response_Respond answers a failure with a response.     *)
Result_Err_into_response_Respond(e) ==
  builder_body(builder_status(Response_builder, BAD_REQUEST), Body_empty)

Result_Err_into_response(e) == Err(into_Error(e))
Result_Ok_into_response(inner) == inner

TextHtml == "text/html"
Html_into_response(self) ==
  builder_body(builder_content_type(Response_builder, TextHtml), Body_from(self))

(***************************************************************************)
(* The values a handler returns, nested up to MaxNesting combinators deep. *)
(* A value is a tuple whose first element names its type.                  *)
(***************************************************************************)
Hi == <<"h", "i">>
SuppliedHeaders ==
  { << <<"x-trace", "abc">> >>,
    << <<CONTENT_TYPE, "text/plain">> >>,
    << <<"x-trace", "abc">>, <<"x-trace", "def">> >> }

BuiltResponses ==
  { [body |-> Body_from(Hi), status |-> 201, headers |-> << <<"x-trace", "zzz">> >>],
    [body |-> Body_empty, status |-> DefaultStatus, headers |-> <<>>] }

Failures == { <<"Other", "boom">>, <<"Error", ErrorBodyHasBeenTaken>> }

Leaves ==
  {<<"Response", r>> : r \in BuiltResponses}
    \cup {<<t, Hi>> : t \in {"String", "Str", "Slice", "Bytes", "Vec", "Html"}}
    \cup {<<"Unit">>}
    \cup {<<"StatusCode", s>> : s \in StatusCodes}
    \cup {<<"Err", e>> : e \in Failures}

RECURSIVE Responders(_)
Responders(depth) ==
  IF depth = 0 THEN Leaves
  ELSE LET inner == Responders(depth - 1) IN
       inner
         \cup {<<"Ok", v>> : v \in inner}
         \cup {<<"Tuple2", s, v>> : s \in StatusCodes, v \in inner}
         \cup {<<"Tuple3", s, h, v>> : s \in StatusCodes, h \in SuppliedHeaders, v \in inner}

(***************************************************************************)
(* One conversion of a handler's return value.  cur is the value whose     *)
(* into_response is being entered, stack the combinators whose inner       *)
(* conversion is still running (innermost first), resp the outcome the     *)
(* innermost finished call has returned.  The request is over by then.     *)
(***************************************************************************)
InitResp ==
  /\ parts = [headers |-> <<>>, method |-> GET, uri |-> [path |-> "/x", query |-> NoneV],
              version |-> "HTTP/1.1", extensions |-> {}]
  /\ body = NoneV
  /\ steps = MaxSteps
  /\ last = [kind |-> NoKind, result |-> Ok("none"), took |-> FALSE, before |-> NoneV]
  /\ takes = 0
  /\ taker = "none"
  /\ responder \in {Some(v) : v \in Responders(MaxNesting)}
  /\ cur = responder
  /\ stack = <<>>
  /\ resp = NoneV

requestVars == <<parts, body, steps, last, takes, taker>>

Entering(type) == cur.some /\ cur.v[1] = type
Returning(type) == ~cur.some /\ resp.some /\ stack # <<>> /\ Head(stack)[1] = type
Done == ~cur.some /\ resp.some /\ stack = <<>>

Finish(outcome) ==
  /\ resp' = Some(outcome)
  /\ cur' = NoneV
  /\ UNCHANGED <<stack, responder, requestVars>>

Call(layer, inner) ==
  /\ stack' = <<layer>> \o stack
  /\ cur' = Some(inner)
  /\ UNCHANGED <<resp, responder, requestVars>>

Return(outcome) ==
  /\ resp' = Some(outcome)
  /\ stack' = Tail(stack)
  /\ UNCHANGED <<cur, responder, requestVars>>

ConvertResponse == Entering("Response") /\ Finish(Response_into_response(cur.v[2]))
ConvertString == Entering("String") /\ Finish(String_into_response(cur.v[2]))
ConvertStr == Entering("Str") /\ Finish(Str_into_response(cur.v[2]))
ConvertSlice == Entering("Slice") /\ Finish(Slice_into_response(cur.v[2]))
ConvertBytes == Entering("Bytes") /\ Finish(Bytes_into_response(cur.v[2]))
ConvertVec == Entering("Vec") /\ Finish(Vec_into_response(cur.v[2]))
ConvertUnit == Entering("Unit") /\ Finish(Unit_into_response)
ConvertStatusCode == Entering("StatusCode") /\ Finish(StatusCode_into_response(cur.v[2]))
ConvertHtml == Entering("Html") /\ Finish(Html_into_response(cur.v[2]))
ConvertErr == Entering("Err") /\ Finish(Result_Err_into_response(cur.v[2]))

EnterOk == Entering("Ok") /\ Call(<<"Ok">>, cur.v[2])
EnterTuple2 == Entering("Tuple2") /\ Call(<<"Tuple2", cur.v[2]>>, cur.v[3])
EnterTuple3 == Entering("Tuple3") /\ Call(<<"Tuple3", cur.v[2], cur.v[3]>>, cur.v[4])

ReturnOk == Returning("Ok") /\ Return(Result_Ok_into_response(resp.v))
ReturnTuple2 ==
  Returning("Tuple2") /\ Return(Tuple2_into_response(Head(stack)[2], resp.v))
ReturnTuple3 ==
  Returning("Tuple3")
    /\ Return(Tuple3_into_response(Head(stack)[2], Head(stack)[3], resp.v))

NextResp ==
  \/ ConvertResponse
  \/ ConvertString
  \/ ConvertStr
  \/ ConvertSlice
  \/ ConvertBytes
  \/ ConvertVec
  \/ ConvertUnit
  \/ ConvertStatusCode
  \/ ConvertHtml
  \/ ConvertErr
  \/ EnterOk
  \/ EnterTuple2
  \/ EnterTuple3
  \/ ReturnOk
  \/ ReturnTuple2
  \/ ReturnTuple3

SpecResp == InitResp /\ [][NextResp]_vars

TypeOKResp ==
  /\ Len(stack) \in 0..MaxNesting
  /\ resp.some => (resp.v.ok => resp.v.val.status \in StatusCodes \cup {DefaultStatus})
  /\ cur.some => ~resp.some

(***************************************************************************)
(* What the claims speak of.                                               *)
(***************************************************************************)
Present(holder) == holder # NoneV
Taken(holder) == holder = NoneV

(* The values of the request's Content-Type entries, in order. *)
IsContentType(entry) == entry[1] = CONTENT_TYPE
ContentTypeValues(headers) ==
  LET entries == SelectSeq(headers, IsContentType) IN
  [i \in 1..Len(entries) |-> entries[i][2]]

ContentTypeMatches(headers) ==
  /\ ContentTypeValues(headers) # <<>>
  /\ Head(ContentTypeValues(headers)) = FormContentType

QueryOrEmpty(uri) == IF uri.query = NoneV THEN <<>> ELSE uri.query.v

LastIs(ty) == last.kind.ty = ty /\ last.kind.opt = 0

(* C1: the body holder goes from Present to Taken at most once and never   *)
(* back: once empty it stays empty after every later step, and at most one *)
(* step of the sequence obtains the body.                                  *)
C1_TakenOnceNeverRestored ==
  [][(Taken(body) => Taken(body')) /\ takes' <= 1]_vars

C1_Witness ==
  /\ steps >= 2
  /\ takes = 1
  /\ Taken(last.before)
  /\ Taken(body)
  /\ (last.kind.ty \in BodyTypes \/ last.kind.ty = "Form")
  /\ ~last.took

(* C2: the raw-body extractor on a holder that is already empty fails with *)
(* BodyAlreadyTaken, whichever extractor took the body before.             *)
C2_SecondTakeFails ==
  (LastIs("Body") /\ Taken(last.before)) =>
    (~last.result.ok /\ last.result.err = ErrorBodyHasBeenTaken /\ ~last.took)

C2_Witness ==
  /\ LastIs("Body")
  /\ Taken(last.before)
  /\ taker = "Body"
  /\ last.result = Err(ErrorBodyHasBeenTaken)

(* C3: on a non-GET request whose Content-Type is missing or is not        *)
(* exactly application/x-www-form-urlencoded, Form<T> fails with           *)
(* InvalidContentType and leaves the holder as it found it.                *)
C3_WrongContentTypeLeavesBody ==
  (LastIs("Form") /\ parts.method # GET /\ ~ContentTypeMatches(parts.headers)) =>
    (last.result = Err(ErrorInvalidFormContentType) /\ body = last.before)

C3_Witness ==
  /\ LastIs("Form")
  /\ parts.method = "POST"
  /\ parts.headers = << <<CONTENT_TYPE, "application/x-www-form-urlencoded; charset=utf-8">> >>
  /\ Present(last.before)
  /\ Present(body)
  /\ last.result = Err(ErrorInvalidFormContentType)

(* C4: on a GET request Form<T> never touches the body: the holder after   *)
(* the step is the holder before it, Present or Taken, decode success or   *)
(* failure, whatever the Content-Type.                                     *)
C4_GetFormLeavesBody ==
  (LastIs("Form") /\ parts.method = GET) => (body = last.before /\ ~last.took)

C4_Witness ==
  /\ LastIs("Form")
  /\ parts.method = GET
  /\ ContentTypeMatches(parts.headers)
  /\ Present(last.before)
  /\ Present(body)
  /\ ~last.result.ok

(* C5: on a non-GET request with the form Content-Type, a present body     *)
(* and a payload that decodes into T, Form<T> succeeds with the decode of  *)
(* the body bytes and the holder is Taken afterwards.                      *)
C5_BodyFormDecodes ==
  (/\ LastIs("Form")
   /\ parts.method # GET
   /\ ContentTypeMatches(parts.headers)
   /\ Present(last.before)
   /\ last.before.v.readable
   /\ from_bytes(last.kind.T, last.before.v.bytes).ok) =>
    (/\ last.result = Ok(Form(from_bytes(last.kind.T, last.before.v.bytes).val))
     /\ Taken(body))

C5_Witness ==
  /\ LastIs("Form")
  /\ last.kind.T = "Person"
  /\ parts.method = "POST"
  /\ parts.uri.query = Some(<<"n", "=", "A", "&", "n", "=", "B">>)
  /\ Present(last.before)
  /\ last.before.v.bytes = <<"n", "=", "B", "&", "a", "=", "5">>
  /\ last.result = Ok(Form([n |-> <<"B">>, a |-> 5]))
  /\ Taken(body)
(* C6: on a GET request the result of Form<T> is the decode of the URI's   *)
(* query component wrapped in Form, a URI without a query being decoded as *)
(* the empty string.                                                       *)
C6_GetFormDecodesQuery ==
  (LastIs("Form") /\ parts.method = GET) =>
    LET d == from_str(last.kind.T, QueryOrEmpty(parts.uri)) IN
    IF d.ok THEN last.result = Ok(Form(d.val)) ELSE ~last.result.ok

C6_Witness ==
  /\ LastIs("Form")
  /\ last.kind.T = "Pairs"
  /\ parts.method = GET
  /\ parts.uri.query = NoneV
  /\ last.result = Ok(Form(<<>>))

(* C7: when Form<T> fails because the input does not decode into T (the    *)
(* query on GET; the payload of a present, readable body on non-GET with   *)
(* the form Content-Type), the error is a bad-request error with status    *)
(* 400.                                                                    *)
DecodeFails ==
  \/ /\ parts.method = GET
     /\ ~from_str(last.kind.T, QueryOrEmpty(parts.uri)).ok
  \/ /\ parts.method # GET
     /\ ContentTypeMatches(parts.headers)
     /\ Present(last.before)
     /\ last.before.v.readable
     /\ ~from_bytes(last.kind.T, last.before.v.bytes).ok

C7_DecodeFailureIsBadRequest ==
  (LastIs("Form") /\ DecodeFails) =>
    (/\ ~last.result.ok
     /\ last.result.err.kind = "BadRequest"
     /\ last.result.err.status = BAD_REQUEST)

C7_Witness ==
  /\ LastIs("Form")
  /\ parts.method = "POST"
  /\ Present(last.before)
  /\ last.before.v.bytes = <<"n", "=", "A", "&", "a", "=", "x">>
  /\ last.result = Err(bad_request("invalid digit found in string"))

(* C8: Option<T> never fails: where T's extraction fails, with whatever    *)
(* error, the result is success with absent; where it succeeds with v, the *)
(* result is success with present v.                                       *)
C8_OptionNeverFails ==
  (last.kind.opt > 0) =>
    LET inner == from_request(Unwrapped(last.kind), parts, last.before).result IN
    /\ last.result.ok
    /\ IF inner.ok THEN last.result.val = Some(inner.val) ELSE last.result.val = NoneV

C8_Witness ==
  /\ last.kind = Kind("String", "-", 1)
  /\ Present(last.before)
  /\ ~last.before.v.readable
  /\ last.result = Ok(NoneV)

(* C9: the metadata extractors never fail and never touch the body: in     *)
(* every holder state and at any position they give the projection of the  *)
(* request metadata and leave the holder as it was.                        *)
Projection(ty) ==
  CASE ty = "RequestParts" -> parts
    [] ty = "Uri" -> parts.uri
    [] ty = "Method" -> parts.method
    [] ty = "Version" -> parts.version
    [] ty = "HeaderMap" -> parts.headers

C9_MetadataNeverFails ==
  (last.kind.opt = 0 /\ last.kind.ty \in MetadataTypes) =>
    (/\ last.result = Ok(Projection(last.kind.ty))
     /\ body = last.before
     /\ ~last.took)

C9_Witness ==
  /\ LastIs("Uri")
  /\ steps = MaxSteps
  /\ Taken(last.before)
  /\ Taken(body)
  /\ last.result = Ok(parts.uri)

(* C10 as stated: Bytes and Vec<u8> succeed with the body's bytes whenever *)
(* the holder is Present, and BodyAlreadyTaken is their only error.        *)
C10_OnlyBodyAlreadyTaken ==
  (LastIs("Bytes") \/ LastIs("Vec")) =>
    (/\ Present(last.before) => last.result.ok
     /\ ~last.result.ok => last.result.err = ErrorBodyHasBeenTaken)

(* C10, amended: Bytes and Vec<u8> take the body; with a Present holder    *)
(* whose body reads to completion they succeed with its bytes, with a      *)
(* Present holder whose read fails they return that I/O failure, with an   *)
(* empty holder they return BodyAlreadyTaken; the holder is empty after.   *)
C10_BytesTakeBody ==
  (LastIs("Bytes") \/ LastIs("Vec")) =>
    (/\ (Present(last.before) /\ last.before.v.readable) =>
          last.result = Ok(last.before.v.bytes)
     /\ (Present(last.before) /\ ~last.before.v.readable) =>
          last.result = Err(IoFailure)
     /\ Taken(last.before) => last.result = Err(ErrorBodyHasBeenTaken)
     /\ Taken(body))

C10_Witness ==
  /\ LastIs("Vec")
  /\ Present(last.before)
  /\ ~last.before.v.readable
  /\ last.result = Err(IoFailure)
  /\ Taken(body)
(* C11: String takes the body and decodes its bytes as UTF-8: a present    *)
(* body of valid UTF-8 gives that text, a present body of invalid UTF-8 a  *)
(* bad-request error, an empty holder BodyAlreadyTaken.                    *)
ValidUtf8(bytes) == \A i \in 1..Len(bytes) : bytes[i] # InvalidByte

C11_StringDecodesUtf8 ==
  LastIs("String") =>
    (/\ (Present(last.before) /\ last.before.v.readable /\ ValidUtf8(last.before.v.bytes)) =>
          last.result = Ok(last.before.v.bytes)
     /\ (Present(last.before) /\ last.before.v.readable /\ ~ValidUtf8(last.before.v.bytes)) =>
          (~last.result.ok /\ last.result.err.kind = "BadRequest")
     /\ Taken(last.before) => last.result = Err(ErrorBodyHasBeenTaken)
     /\ Taken(body))

C11_Witness ==
  /\ LastIs("String")
  /\ Present(last.before)
  /\ last.before.v.bytes = <<"n", "=", InvalidByte, "&", "a", "=", "5">>
  /\ last.result = Err(bad_request("invalid utf-8 sequence"))
  /\ Taken(body)
(* C12: (status, inner) converts the inner value first and then overwrites *)
(* only the status: from an inner response r the result has the given      *)
(* status and r's body and headers; an inner failure is returned as it is, *)
(* with no status applied.                                                 *)
C12_StatusTupleOverwritesStatus ==
  [][/\ Entering("Tuple2") => (cur' = Some(cur.v[3]) /\ resp' = resp)
     /\ (Returning("Tuple2") /\ resp.v.ok) =>
          /\ resp'.v.ok
          /\ resp'.v.val.status = Head(stack)[2]
          /\ resp'.v.val.body = resp.v.val.body
          /\ resp'.v.val.headers = resp.v.val.headers
     /\ (Returning("Tuple2") /\ ~resp.v.ok) => resp' = resp]_vars

C12_Witness ==
  /\ Done
  /\ responder.v = <<"Tuple2", 404, <<"Html", Hi>>>>
  /\ resp.v = Ok([body |-> Body_from(Hi), status |-> 404,
                  headers |-> << <<CONTENT_TYPE, TextHtml>> >>])
(* C13: (status, headers, inner) gives the given status, the inner body    *)
(* and headers that extend the inner ones: every header value of the inner *)
(* response is still present and every supplied value is present, also     *)
(* when a supplied header has the name of one the inner response carries.  *)
HasHeader(headers, entry) == \E j \in 1..Len(headers) : headers[j] = entry

C13_HeadersAccumulate ==
  [][(Returning("Tuple3") /\ resp.v.ok) =>
       /\ resp'.v.ok
       /\ resp'.v.val.status = Head(stack)[2]
       /\ resp'.v.val.body = resp.v.val.body
       /\ \A i \in 1..Len(resp.v.val.headers) :
            HasHeader(resp'.v.val.headers, resp.v.val.headers[i])
       /\ \A i \in 1..Len(Head(stack)[3]) :
            HasHeader(resp'.v.val.headers, Head(stack)[3][i])]_vars
(* C14: a Result converts as its arm says: Ok(v) yields exactly the        *)
(* outcome of v's own conversion; Err(e) yields the Error converted from   *)
(* e, and no response is built.                                            *)
ErrorFrom(e) ==
  IF e[1] = "Error" THEN e[2] ELSE [kind |-> "Generic", cause |-> e[2]]

C14_ResultConvertsItsArm ==
  [][/\ Entering("Ok") => (cur' = Some(cur.v[2]) /\ resp' = resp)
     /\ Returning("Ok") => resp' = resp
     /\ Entering("Err") =>
          (resp'.some /\ ~resp'.v.ok /\ resp'.v.err = ErrorFrom(cur.v[2]))]_vars

C14_Witness ==
  /\ Done
  /\ responder.v = <<"Ok", <<"Err", <<"Other", "boom">>>>>>
  /\ resp.v = Err([kind |-> "Generic", cause |-> "boom"])
(* C15: composition is inside-out for any nest of tuple and Result         *)
(* combinators.  The innermost value is converted first: no outcome exists *)
(* while a conversion is still being entered.  An outer tuple layer only   *)
(* changes status and headers of the response it is handed, never its      *)
(* body, so the final status is the outermost tuple's and the final body   *)
(* the innermost value's.  A failure of an inner layer passes every outer  *)
(* layer unchanged.                                                        *)
RECURSIVE Innermost(_)
Innermost(v) ==
  IF v[1] = "Ok" THEN Innermost(v[2])
  ELSE IF v[1] = "Tuple2" THEN Innermost(v[3])
  ELSE IF v[1] = "Tuple3" THEN Innermost(v[4])
  ELSE v

IsTuple(v) == v[1] = "Tuple2" \/ v[1] = "Tuple3"
HasPayload(v) == v[1] \in {"String", "Str", "Slice", "Bytes", "Vec", "Html"}

C15_InsideOut ==
  [][/\ cur'.some => ~resp'.some
     /\ (Returning("Tuple2") \/ Returning("Tuple3")) =>
          /\ resp.v.ok => (resp'.v.ok /\ resp'.v.val.body = resp.v.val.body)
          /\ stack' = Tail(stack)
     /\ (~cur.some /\ resp.some /\ ~resp.v.ok) => resp' = resp
     /\ (Done' /\ IsTuple(responder.v) /\ resp'.v.ok) =>
          resp'.v.val.status = responder.v[2]
     /\ (Done' /\ HasPayload(Innermost(responder.v))) =>
          (resp'.v.ok /\ resp'.v.val.body = [readable |-> TRUE,
                                             bytes |-> Innermost(responder.v)[2]])
     /\ (Done' /\ Innermost(responder.v)[1] = "Err") =>
          resp'.v = Err(ErrorFrom(Innermost(responder.v)[2]))]_vars

C15_Witness ==
  /\ Done
  /\ responder.v = <<"Tuple2", 404, <<"Tuple2", 201, <<"Html", Hi>>>>>>
  /\ resp.v.ok
  /\ resp.v.val.status = 404
  /\ resp.v.val.body = Body_from(Hi)
(* C16: a body-taking extraction that fails after its take does not put    *)
(* the body back.  String on invalid UTF-8, and Form on a non-GET request  *)
(* with the right content type whose read or decode fails, leave the       *)
(* holder Taken, and every later body-taking step fails with               *)
(* BodyAlreadyTaken.                                                       *)
FormReadsBody ==
  last.kind.ty = "Form" /\ parts.method # GET /\ ContentTypeMatches(parts.headers)

FailedAfterTake ==
  /\ last.kind.opt = 0
  /\ Present(last.before)
  /\ ~last.result.ok
  /\ \/ (last.kind.ty = "String" /\ last.before.v.readable
           /\ ~ValidUtf8(last.before.v.bytes))
     \/ FormReadsBody

BodyTakingStep ==
  /\ last.kind.opt = 0
  /\ (last.kind.ty = "Body" \/ last.kind.ty = "String" \/ last.kind.ty = "Bytes"
        \/ last.kind.ty = "Vec" \/ FormReadsBody)

C16_FailedTakeNotRestored ==
  [][/\ FailedAfterTake' => Taken(body')
     /\ (FailedAfterTake /\ steps' = steps + 1 /\ BodyTakingStep') =>
          last'.result = Err(ErrorBodyHasBeenTaken)]_vars

C16_Witness ==
  /\ LastIs("Form")
  /\ parts.method = "POST"
  /\ ContentTypeMatches(parts.headers)
  /\ Present(last.before)
  /\ ~last.before.v.readable
  /\ last.result = Err(IoFailure)
  /\ Taken(body)
(* C17: Option<T> drops T's error, not T's effect on the holder.  After    *)
(* Option<T> the holder is what T's own extraction leaves.  Option<String> *)
(* on invalid UTF-8 and Option<Form<T>> on a body that does not read or    *)
(* decode give absent and leave the holder empty, so a later body-taking   *)
(* step fails with BodyAlreadyTaken; an Option<T> that is absent because T *)
(* failed before taking leaves the holder as it was.                       *)
Absent == last.kind.opt = 1 /\ last.result = Ok(NoneV)

AbsentAfterTake ==
  /\ Absent
  /\ Present(last.before)
  /\ \/ (last.kind.ty = "String" /\ last.before.v.readable
           /\ ~ValidUtf8(last.before.v.bytes))
     \/ FormReadsBody

AbsentBeforeTake ==
  /\ Absent
  /\ \/ Taken(last.before)
     \/ (last.kind.ty = "Form"
           /\ (parts.method = GET \/ ~ContentTypeMatches(parts.headers)))

C17_OptionKeepsSideEffect ==
  /\ [](/\ last.kind.opt > 0 =>
            body = from_request(Unwrapped(last.kind), parts, last.before).body
        /\ AbsentAfterTake => Taken(body)
        /\ AbsentBeforeTake => body = last.before)
  /\ [][(AbsentAfterTake /\ steps' = steps + 1 /\ BodyTakingStep') =>
          last'.result = Err(ErrorBodyHasBeenTaken)]_vars

C17_Witness ==
  /\ last.kind = Kind("Form", "Person", 1)
  /\ parts.method = "POST"
  /\ ContentTypeMatches(parts.headers)
  /\ Present(last.before)
  /\ last.before.v.bytes = <<"n", "=", "A", "&", "a", "=", "x">>
  /\ last.result = Ok(NoneV)
  /\ Taken(body)
(* C18: on a non-GET request Form<T> checks the content type before it     *)
(* touches the holder.  A missing or different Content-Type fails with     *)
(* InvalidContentType also when the holder is already empty, and           *)
(* BodyAlreadyTaken is returned exactly when the content type matches and  *)
(* the holder is empty.                                                    *)
C18_ContentTypeBeforeHolder ==
  (LastIs("Form") /\ parts.method # GET) =>
    /\ ~ContentTypeMatches(parts.headers) =>
         (last.result = Err(ErrorInvalidFormContentType) /\ ~last.took
            /\ body = last.before)
    /\ (last.result = Err(ErrorBodyHasBeenTaken)) <=>
         (ContentTypeMatches(parts.headers) /\ Taken(last.before))

C18_Witness ==
  /\ LastIs("Form")
  /\ parts.method = "POST"
  /\ ~ContentTypeMatches(parts.headers)
  /\ Taken(last.before)
  /\ last.result = Err(ErrorInvalidFormContentType)
(* C19: Form<T> picks its source by the method alone.  Exactly GET decodes *)
(* the query, whatever the Content-Type and the body are.  Every other     *)
(* method (HEAD, DELETE and OPTIONS as much as POST) goes through the      *)
(* content-type check and the body branch, and its result does not depend  *)
(* on the query: a HEAD request with form data in its query and no         *)
(* Content-Type fails with InvalidContentType.                             *)
C19_SourceByMethodAlone ==
  LastIs("Form") =>
    /\ parts.method = GET =>
         LET q == from_str(last.kind.T, QueryOrEmpty(parts.uri)) IN
         /\ q.ok => last.result = Ok(Form(q.val))
         /\ ~q.ok => (~last.result.ok /\ last.result.err.kind = "BadRequest")
         /\ body = last.before
         /\ ~last.took
    /\ parts.method # GET =>
         /\ ~ContentTypeMatches(parts.headers) =>
              last.result = Err(ErrorInvalidFormContentType)
         /\ (ContentTypeMatches(parts.headers) /\ Taken(last.before)) =>
              last.result = Err(ErrorBodyHasBeenTaken)
         /\ (ContentTypeMatches(parts.headers) /\ Present(last.before)) =>
              /\ last.took
              /\ Taken(body)
              /\ ~last.before.v.readable => last.result = Err(IoFailure)
              /\ last.before.v.readable =>
                   LET d == from_bytes(last.kind.T, last.before.v.bytes) IN
                   /\ d.ok => last.result = Ok(Form(d.val))
                   /\ ~d.ok => (~last.result.ok /\ last.result.err.kind = "BadRequest")
    /\ (parts.method = "HEAD" /\ ContentTypeValues(parts.headers) = <<>>
          /\ Present(parts.uri.query)) =>
         last.result = Err(ErrorInvalidFormContentType)

C19_Witness ==
  /\ LastIs("Form")
  /\ last.kind.T = "Pairs"
  /\ parts.method = "HEAD"
  /\ parts.headers = <<>>
  /\ parts.uri.query = Some(<<"n", "=", "A", "&", "n", "=", "B">>)
  /\ last.result = Err(ErrorInvalidFormContentType)
  /\ Present(body)
====
